---- MODULE Spec2Model ----
(***************************************************************************)
(* Model of the Gemini vision client of src/api_client.py: construction of *)
(* GeminiClient, one transport call (_call_gemini) and the retry loop of   *)
(* analyze_image_from_buffer.                                              *)
(*                                                                         *)
(* Text is a sequence of tokens (a token is a character or an indivisible  *)
(* run of characters), so that formatting an error message and searching   *)
(* it for a substring are computed, not assumed.  A JSON value is a tagged *)
(* record [t, v]; an object is a sequence of <<key, value>> members.       *)
(***************************************************************************)
EXTENDS Integers, Sequences, FiniteSets, TLC

VARIABLES pc, api_key, api_url, buf, args, payload, attempt, last_exc,
          last_resp, log, outcome,
          uploaded_files, analysis_results, file_index, app_state

\* The session state of the calling application.
appvars == <<uploaded_files, analysis_results, file_index, app_state>>

vars == <<pc, api_key, api_url, buf, args, payload, attempt, last_exc,
          last_resp, log, outcome, appvars>>

\* Largest max_attempts a caller passes in the model.
MaxAttempts == 3

\* ------------------------------------------------------------------ text

None == "<None>"

Truthy(x) == x # None /\ x # ""

PyOr(a, b) == IF Truthy(a) THEN a ELSE b

Digit(d) == <<"0", "1", "2", "3", "4", "5", "6", "7", "8", "9">>[d + 1]

RECURSIVE DecStr(_)
DecStr(n) == IF n < 10 THEN <<Digit(n)>> ELSE DecStr(n \div 10) \o <<Digit(n % 10)>>

\* Python's `pat in s` on text.
Contains(s, pat) ==
    \E i \in 1..(Len(s) - Len(pat) + 1) : SubSeq(s, i, i + Len(pat) - 1) = pat

RECURSIVE Pow(_, _)
Pow(b, e) == IF e <= 0 THEN 1 ELSE b * Pow(b, e - 1)

\* ------------------------------------------------------------------ JSON

JStr(s) == [t |-> "str", v |-> s]
JNum(n) == [t |-> "num", v |-> n]
JList(s) == [t |-> "list", v |-> s]
JObj(members) == [t |-> "obj", v |-> members]
Exc(name) == [t |-> "exc", v |-> name]

IsExc(x) == x.t = "exc"

\* dict.get(k, default); an exception in the receiver propagates, and a
\* receiver that is no dict has no attribute 'get'.
PyGet(x, k, default) ==
    IF IsExc(x) THEN x
    ELSE IF x.t # "obj" THEN Exc("AttributeError")
    ELSE IF \E i \in 1..Len(x.v) : x.v[i][1] = k
         THEN x.v[CHOOSE i \in 1..Len(x.v) : x.v[i][1] = k][2]
         ELSE default

\* x[0]
PyIndex0(x) ==
    IF IsExc(x) THEN x
    ELSE IF x.t = "list"
         THEN IF Len(x.v) > 0 THEN x.v[1] ELSE Exc("IndexError")
    ELSE IF x.t = "str"
         THEN IF Len(x.v) > 0 THEN JStr(<<x.v[1]>>) ELSE Exc("IndexError")
    ELSE IF x.t = "obj" THEN Exc("KeyError")
    ELSE Exc("TypeError")

\* --------------------------------------------------------------- buffers

\* An IO[bytes]: its bytes, its read position, and whether seek or read
\* raises (a closed or broken stream).
ByteStrings == {<<>>, <<77>>, <<77, 97, 110>>}

\* The buffers a caller holds: an empty one, a fresh one (read to its end
\* once a call has used it), and two whose seek or read raises.
Buffers ==
    {[data |-> <<>>, pos |-> 0, mode |-> "ok"],
     [data |-> <<77, 97, 110>>, pos |-> 0, mode |-> "ok"],
     [data |-> <<77>>, pos |-> 0, mode |-> "seek_raises"],
     [data |-> <<77>>, pos |-> 1, mode |-> "read_raises"]}

\* Mutant: the read position is left where it stands.
Seek0NoRewind(b) ==
    IF b.mode = "seek_raises"
    THEN [ok |-> FALSE, exc |-> <<"I/O operation on closed file">>, buf |-> b]
    ELSE [ok |-> TRUE, exc |-> <<>>, buf |-> b]

\* image_buffer.seek(0)
Seek0(b) ==
    IF b.mode = "seek_raises"
    THEN [ok |-> FALSE, exc |-> <<"I/O operation on closed file">>, buf |-> b]
    ELSE [ok |-> TRUE, exc |-> <<>>, buf |-> [b EXCEPT !.pos = 0]]

\* image_buffer.read(): the bytes from the read position to the end.
ReadRest(b) ==
    IF b.mode = "read_raises"
    THEN [ok |-> FALSE, exc |-> <<"read error">>, bytes |-> <<>>, buf |-> b]
    ELSE [ok |-> TRUE, exc |-> <<>>,
          bytes |-> SubSeq(b.data, b.pos + 1, Len(b.data)),
          buf |-> [b EXCEPT !.pos = Len(b.data)]]

\* Mutant: only whole groups of three bytes are encoded, the tail is dropped.
RECURSIVE B64EncodeDropTail(_)
B64EncodeDropTail(bs) ==
    IF Len(bs) < 3 THEN <<>>
    ELSE <<bs[1] \div 4, (bs[1] % 4) * 16 + bs[2] \div 16,
           (bs[2] % 16) * 4 + bs[3] \div 64, bs[3] % 64>>
         \o B64EncodeDropTail(SubSeq(bs, 4, Len(bs)))

\* base64.b64encode(...).decode("utf-8"): each character is its index in the
\* base64 alphabet, 64 is the padding character '='.
RECURSIVE B64Encode(_)
B64Encode(bs) ==
    IF Len(bs) = 0 THEN <<>>
    ELSE IF Len(bs) = 1
    THEN <<bs[1] \div 4, (bs[1] % 4) * 16, 64, 64>>
    ELSE IF Len(bs) = 2
    THEN <<bs[1] \div 4, (bs[1] % 4) * 16 + bs[2] \div 16, (bs[2] % 16) * 4, 64>>
    ELSE <<bs[1] \div 4, (bs[1] % 4) * 16 + bs[2] \div 16,
           (bs[2] % 16) * 4 + bs[3] \div 64, bs[3] % 64>>
         \o B64Encode(SubSeq(bs, 4, Len(bs)))

\* Mutant: a failing seek or read is swallowed and nothing is encoded.
EncodeImageBufferSwallow(b) ==
    [ok |-> TRUE, exc |-> <<>>, value |-> <<>>, buf |-> b]

EncodeImageBuffer(b) ==
    LET s == Seek0(b) IN
    IF ~s.ok THEN [ok |-> FALSE, exc |-> s.exc, value |-> <<>>, buf |-> s.buf]
    ELSE LET r == ReadRest(s.buf) IN
         IF ~r.ok THEN [ok |-> FALSE, exc |-> r.exc, value |-> <<>>, buf |-> r.buf]
         ELSE [ok |-> TRUE, exc |-> <<>>, value |-> B64Encode(r.bytes), buf |-> r.buf]

\* --------------------------------------------------------------- payload

\* Mutant: the payload carries the redundant config block naming the model.
MakeGeminiPayloadWithConfig(base64_image, system_prompt, user_query, model_name) ==
    [contents |-> <<
        [role |-> "user",
         parts |-> <<
            [inlineData |-> [mimeType |-> "image/jpeg", data |-> base64_image]],
            [text |-> <<"SYSTEM INSTRUCTION: ">> \o system_prompt
                      \o <<"\n\nUSER QUERY: ">> \o user_query]
         >>]
     >>,
     config |-> [model |-> model_name]]

MakeGeminiPayload(base64_image, system_prompt, user_query, model_name) ==
    [contents |-> <<
        [role |-> "user",
         parts |-> <<
            [inlineData |-> [mimeType |-> "image/jpeg", data |-> base64_image]],
            [text |-> <<"SYSTEM INSTRUCTION: ">> \o system_prompt
                      \o <<"\n\nUSER QUERY: ">> \o user_query]
         >>]
    >>]

DefaultUserQuery ==
    <<"Analyze the image based on the system instruction and provide your structured response.">>

DefaultApiUrl ==
    "https://generativelanguage.googleapis.com/v1beta/models/gemini-2.5-flash:generateContent"

DefaultTimeout == 60

\* ------------------------------------------------------------- transport

\* Response bodies of a failed request (and of a 2xx answer that is no JSON).
BodyPlain == <<"bad request">>
Body429 == <<"quota ", "4", "2", "9">>
BodyErr4 == <<"upstream said ", "API Error ", "4", "0", "4">>
TextBodies == {BodyPlain, Body429, BodyErr4}

NotJson == [t |-> "invalid", v |-> 0]

Part(text) == JObj(<< <<"text", JStr(text)>> >>)
Candidate(parts) ==
    JObj(<< <<"content", JObj(<< <<"parts", JList(parts)>> >>)>> >>)
Usage(n) == JObj(<< <<"totalTokenCount", JNum(n)>> >>)

GirText == <<"Gir breed, high confidence">>
MurrahText == <<"Murrah">>

\* Parseable JSON bodies of a 2xx answer: the documented shape, with and
\* without usageMetadata, and bodies where a level is missing or empty.
JsonBodies ==
    { JObj(<< <<"candidates", JList(<<Candidate(<<Part(GirText)>>)>>)>>,
              <<"usageMetadata", Usage(42)>> >>),
      JObj(<< <<"candidates", JList(<<Candidate(<<Part(MurrahText), Part(GirText)>>)>>)>> >>),
      JObj(<< <<"candidates", JList(<<Candidate(<<Part(GirText)>>)>>)>>,
              <<"usageMetadata", JObj(<<>>)>> >>),
      JObj(<<>>),
      JObj(<< <<"candidates", JList(<<JObj(<<>>)>>)>>, <<"usageMetadata", Usage(7)>> >>),
      JObj(<< <<"candidates", JList(<<>>)>> >>),
      JObj(<< <<"candidates", JList(<<Candidate(<<>>)>>)>> >>),
      JList(<<>>) }

HttpErrorStatuses == {400, 401, 403, 404, 429, 500}

\* What one requests.post can bring: a network-level failure (a
\* requests.RequestException), an HTTP error status with a body, a 2xx with
\* a body that is no JSON, a 2xx with a JSON body.
Responses ==
    {[kind |-> "net", status |-> 0, text |-> m, json |-> NotJson] :
        m \in {<<"Read timed out">>, <<"Connection reset by peer">>}} \cup
    {[kind |-> "http", status |-> s, text |-> b, json |-> NotJson] :
        s \in HttpErrorStatuses \cup {200}, b \in TextBodies} \cup
    {[kind |-> "http", status |-> 200, text |-> <<"{json}">>, json |-> j] :
        j \in JsonBodies}

NoExc == [type |-> "None", msg |-> <<None>>]

ApiErrorMessage(status_code, body) ==
    IF status_code \in {400, 401, 403}
    THEN <<"Gemini ", "API Error ">> \o DecStr(status_code)
         \o <<": Check API Key or URL configuration. Details: ">> \o body
    ELSE <<"Gemini ", "API Error ">> \o DecStr(status_code)
         \o <<". Details: ">> \o body

\* resp.raise_for_status() raises for 400..599.
RaisesForStatus(resp) == resp.status >= 400 /\ resp.status < 600

\* One _call_gemini on the answer resp: the parsed JSON, or the exception
\* raised.
CallGemini(resp) ==
    IF resp.kind = "net"
    THEN [ok |-> FALSE, result |-> NotJson,
          exc |-> [type |-> "RequestException", msg |-> resp.text]]
    ELSE IF RaisesForStatus(resp)
    THEN [ok |-> FALSE, result |-> NotJson,
          exc |-> [type |-> "APIError", msg |-> ApiErrorMessage(resp.status, resp.text)]]
    ELSE IF resp.json.t = "invalid"
    THEN [ok |-> FALSE, result |-> NotJson,
          exc |-> [type |-> "APIError",
                   msg |-> <<"Invalid JSON response from API: ">> \o resp.text]]
    ELSE [ok |-> TRUE, result |-> resp.json, exc |-> NoExc]

\* Mutant: 429 is not exempted from the client-error rule.
NoRetryNo429(e) ==
    /\ e.type = "APIError"
    /\ Contains(e.msg, <<"API Error ", "4">>)

\* Mutant: a body that is no JSON also ends the loop.
NoRetryInvalidJson(e) ==
    /\ e.type = "APIError"
    /\ \/ Contains(e.msg, <<"Invalid JSON response from API: ">>)
       \/ /\ Contains(e.msg, <<"API Error ", "4">>)
          /\ ~Contains(e.msg, <<"4", "2", "9">>)

\* The break condition of the except clause.
NoRetry(e) ==
    /\ e.type = "APIError"
    /\ Contains(e.msg, <<"API Error ", "4">>)
    /\ ~Contains(e.msg, <<"4", "2", "9">>)

ExtractText(result) ==
    PyGet(PyIndex0(PyGet(PyGet(PyIndex0(PyGet(result, "candidates",
        JList(<<JObj(<<>>)>>))), "content", JObj(<<>>)), "parts",
        JList(<<JObj(<<>>)>>))), "text", JStr(<<>>))

ExtractTokens(result) ==
    PyGet(PyGet(result, "usageMetadata", JObj(<<>>)), "totalTokenCount", JNum(0))

Backoff(initial_backoff, backoff_multiplier, n) ==
    initial_backoff * Pow(backoff_multiplier, n - 1)

SuccessOutcome(text_content, model_name, total_tokens) ==
    [success |-> TRUE, analysis |-> text_content, model_used |-> model_name,
     tokens_used |-> total_tokens]

EncodeFailure(e) ==
    [success |-> FALSE, error |-> <<"Image encoding failed: ">> \o e]

\* Mutant: the failure outcome also carries an (empty) analysis.
FinalFailureWithAnalysis(e, model_name) ==
    [success |-> FALSE, error |-> <<"All attempts failed. Last error: ">> \o e.msg,
     model_used |-> model_name, analysis |-> JStr(<<>>)]

FinalFailure(e, model_name) ==
    [success |-> FALSE, error |-> <<"All attempts failed. Last error: ">> \o e.msg,
     model_used |-> model_name]

\* ----------------------------------------------------------- the program

KeyArgs == {None, "", "key-arg"}
EnvKeys == {None, "", "key-env"}
UrlArgs == {None, "https://proxy.example/v1:generateContent"}

ModelNames == {"gemini-2.5-flash", "gemini-2.5-pro"}
\* max_attempts is an unchecked int: zero and a negative value are passed too.
AttemptArgs == (0 - 1)..MaxAttempts
SystemPrompts == {<<"BREED_RECOGNITION_PROMPT">>}
\* <<initial_backoff, backoff_multiplier>>; the first pair is the default.
BackoffSettings == {<<1, 2>>, <<2, 3>>}

NoArgs ==
    [model_name |-> None, system_prompt |-> <<>>, user_query |-> <<>>,
     max_attempts |-> 0, initial_backoff |-> 0, backoff_multiplier |-> 0,
     timeout |-> 0]
NoPayload == [contents |-> <<>>]
NoResp == [kind |-> "none", status |-> 0, text |-> <<>>, json |-> NotJson]
NoOutcome == [pending |-> TRUE]

\* No application around the client.
NoApp ==
    /\ uploaded_files = <<>>
    /\ analysis_results = <<>>
    /\ file_index = 0
    /\ app_state = "none"

Init ==
    /\ pc = "new"
    /\ api_key = None
    /\ api_url = None
    /\ buf \in Buffers
    /\ args = NoArgs
    /\ payload = NoPayload
    /\ attempt = 0
    /\ last_exc = NoExc
    /\ last_resp = NoResp
    /\ log = <<>>
    /\ outcome = NoOutcome
    /\ NoApp

\* GeminiClient.__init__: the key and URL are resolved, and construction
\* raises ValueError when no key results.
\* Mutant: only a missing key is refused, an empty one is accepted.
ConstructOkNotNone(key) == key # None

ConstructOk(key) == Truthy(key)

Construct(key_arg, env_key, url_arg) ==
    /\ pc = "new"
    /\ api_key' = PyOr(key_arg, env_key)
    /\ api_url' = PyOr(url_arg, DefaultApiUrl)
    /\ pc' = IF ConstructOk(api_key') THEN "ready" ELSE "config_error"
    /\ UNCHANGED <<buf, args, payload, attempt, last_exc, last_resp, log, outcome>>
    /\ UNCHANGED appvars

\* Mutant: a first pass is made when max_attempts is 0.
LoopEntersAtZero(max_attempts) == max_attempts >= 0

\* `for attempt in range(1, max_attempts + 1)`: the range has a first pass.
LoopEnters(max_attempts) == max_attempts >= 1

\* The call up to the first attempt: the image is encoded and the payload
\* built; an encoding failure returns at once; an empty range of attempts
\* falls through to the final failure.
AnalyzeStart(model_name, system_prompt, max_attempts, initial_backoff, backoff_multiplier) ==
    /\ pc = "ready"
    /\ LET enc == EncodeImageBuffer(buf) IN
       /\ buf' = enc.buf
       /\ args' = [model_name |-> model_name, system_prompt |-> system_prompt,
                   user_query |-> DefaultUserQuery, max_attempts |-> max_attempts,
                   initial_backoff |-> initial_backoff,
                   backoff_multiplier |-> backoff_multiplier,
                   timeout |-> DefaultTimeout]
       /\ last_exc' = NoExc
       /\ last_resp' = NoResp
       /\ log' = <<>>
       /\ IF ~enc.ok
          THEN /\ outcome' = EncodeFailure(enc.exc)
               /\ pc' = "done"
               /\ payload' = NoPayload
               /\ attempt' = 0
          ELSE /\ payload' = MakeGeminiPayload(enc.value, system_prompt,
                                               DefaultUserQuery, model_name)
               /\ IF ~LoopEnters(max_attempts)
                  THEN /\ outcome' = FinalFailure(NoExc, model_name)
                       /\ pc' = "done"
                       /\ attempt' = 0
                  ELSE /\ outcome' = NoOutcome
                       /\ pc' = "calling"
                       /\ attempt' = 1
    /\ UNCHANGED <<api_key, api_url, appvars>>

\* Mutant: only the first error is kept.
RecordExcFirst(prev, e) == IF prev = NoExc THEN e ELSE prev

\* `last_exc = e` of the except clause.
RecordExc(prev, e) == e

\* Mutant: the sleep is taken after every failed attempt, the last included.
ShouldSleepAlways(n, max_attempts) == TRUE

\* `if attempt < max_attempts` before the sleep.
ShouldSleep(n, max_attempts) == n < max_attempts

\* Mutant: the range runs one pass too far.
LoopHasNextOffByOne(n, max_attempts) == n <= max_attempts

\* `for attempt in range(1, max_attempts + 1)`: another pass follows pass n.
LoopHasNext(n, max_attempts) == n < max_attempts

\* The end of a pass that neither returned nor broke out: the next pass, or
\* the fall through to the final failure with the error e recorded last.
LoopAdvance(e) ==
    IF LoopHasNext(attempt, args.max_attempts)
    THEN /\ attempt' = attempt + 1
         /\ pc' = "calling"
         /\ outcome' = NoOutcome
    ELSE /\ attempt' = attempt
         /\ pc' = "done"
         /\ outcome' = FinalFailure(e, args.model_name)

\* Mutant: the payload is dropped once an attempt has failed.
RequestRebuilt ==
    [ev |-> "call", attempt |-> attempt, url |-> api_url,
     key_header |-> api_key,
     json |-> IF attempt > 1 THEN NoPayload ELSE payload,
     timeout |-> args.timeout]

\* Mutant: the header is filled from the environment at each call, not from
\* the key the client was built with.
RequestKeyFromEnv ==
    [ev |-> "call", attempt |-> attempt, url |-> api_url,
     key_header |-> "key-env", json |-> payload, timeout |-> args.timeout]

\* The request _call_gemini posts.
Request ==
    [ev |-> "call", attempt |-> attempt, url |-> api_url,
     key_header |-> api_key, json |-> payload, timeout |-> args.timeout]

\* One pass of the loop body: the transport call and what the try/except
\* makes of its answer.
Attempt(resp) ==
    /\ pc = "calling"
    /\ log' = Append(log, Request @@ [status |-> resp.status, kind |-> resp.kind])
    /\ last_resp' = resp
    /\ LET r == CallGemini(resp) IN
       IF r.ok
       THEN LET text_content == ExtractText(r.result)
                total_tokens == ExtractTokens(r.result)
            IN /\ last_exc' = last_exc
               /\ attempt' = attempt
               /\ IF IsExc(text_content)
                  THEN /\ pc' = "raised"
                       /\ outcome' = [raised |-> text_content.v]
                  ELSE IF IsExc(total_tokens)
                  THEN /\ pc' = "raised"
                       /\ outcome' = [raised |-> total_tokens.v]
                  ELSE /\ pc' = "done"
                       /\ outcome' = SuccessOutcome(text_content, args.model_name,
                                                    total_tokens)
       ELSE /\ last_exc' = RecordExc(last_exc, r.exc)
            /\ IF NoRetry(r.exc)
               THEN /\ pc' = "done"
                    /\ attempt' = attempt
                    /\ outcome' = FinalFailure(last_exc', args.model_name)
               ELSE IF ShouldSleep(attempt, args.max_attempts)
               THEN /\ pc' = "sleeping"
                    /\ attempt' = attempt
                    /\ outcome' = NoOutcome
               ELSE LoopAdvance(last_exc')
    /\ UNCHANGED <<api_key, api_url, buf, args, payload, appvars>>

\* time.sleep(backoff), then the next pass of the loop.
Sleep ==
    /\ pc = "sleeping"
    /\ log' = Append(log, [ev |-> "sleep", attempt |-> attempt,
                           secs |-> Backoff(args.initial_backoff,
                                            args.backoff_multiplier, attempt)])
    /\ LoopAdvance(last_exc)
    /\ UNCHANGED <<api_key, api_url, buf, args, payload, last_exc, last_resp, appvars>>

\* The caller takes the outcome (or the exception); the client is ready for
\* the next call.
Return ==
    /\ pc \in {"done", "raised"}
    /\ pc' = "ready"
    /\ args' = NoArgs
    /\ payload' = NoPayload
    /\ attempt' = 0
    /\ last_exc' = NoExc
    /\ last_resp' = NoResp
    /\ log' = <<>>
    /\ outcome' = NoOutcome
    /\ UNCHANGED <<api_key, api_url, buf, appvars>>

Next ==
    \/ \E k \in KeyArgs, e \in EnvKeys, u \in UrlArgs : Construct(k, e, u)
    \/ \E m \in ModelNames, sp \in SystemPrompts, n \in AttemptArgs,
          b \in BackoffSettings :
          AnalyzeStart(m, sp, n, b[1], b[2])
    \/ \E resp \in Responses : Attempt(resp)
    \/ Sleep
    \/ Return

Spec == Init /\ [][Next]_vars

\* ------------------------------------------------- the request builder

\* Longest image, in bytes, the builder is applied to.
MaxLen == 3

ByteValues == {0, 77, 97, 110, 255}
AllByteStrings == UNION {[1..n -> ByteValues] : n \in 0..MaxLen}
BuilderPrompts ==
    {<<"BREED_RECOGNITION_PROMPT">>, <<"ANIMAL_TYPE_CLASSIFICATION_PROMPT">>}
UserQueries == {DefaultUserQuery, <<"Which breed is this?">>}

\* An image and nothing built yet.
BuilderInit ==
    /\ pc = "builder"
    /\ api_key = None
    /\ api_url = None
    /\ buf \in {[data |-> d, pos |-> 0, mode |-> "ok"] : d \in AllByteStrings}
    /\ args = NoArgs
    /\ payload = NoPayload
    /\ attempt = 0
    /\ last_exc = NoExc
    /\ last_resp = NoResp
    /\ log = <<>>
    /\ outcome = NoOutcome
    /\ NoApp

\* The image is encoded and the payload built from it and the prompts.
Build(model_name, system_prompt, user_query) ==
    /\ pc = "builder"
    /\ LET enc == EncodeImageBuffer(buf) IN
       /\ buf' = enc.buf
       /\ payload' = MakeGeminiPayload(enc.value, system_prompt, user_query,
                                       model_name)
    /\ args' = [NoArgs EXCEPT !.model_name = model_name,
                              !.system_prompt = system_prompt,
                              !.user_query = user_query]
    /\ pc' = "built"
    /\ UNCHANGED <<api_key, api_url, attempt, last_exc, last_resp, log, outcome, appvars>>

BuilderNext ==
    \E m \in ModelNames, sp \in BuilderPrompts, uq \in UserQueries :
        Build(m, sp, uq)

SpecBuilder == BuilderInit /\ [][BuilderNext]_vars

\* ------------------------------------------------ the calling application

\* Most files uploaded in the model.
MaxFiles == 2

DefaultMaxAttempts == 3
DefaultInitialBackoff == 1
DefaultBackoffMultiplier == 2

SelectedModel == "gemini-2.5-flash"

\* get_system_prompt
GetSystemPrompt(task_type) ==
    IF task_type = "breed_recognition" THEN <<"BREED_RECOGNITION_PROMPT">>
    ELSE IF task_type = "type_classification"
    THEN <<"ANIMAL_TYPE_CLASSIFICATION_PROMPT">>
    ELSE <<"Analyze the provided cattle/buffalo image.">>

\* The JPEG buffers process_uploaded_image leaves, rewound.
AppBuffers ==
    {[data |-> <<77, 97, 110>>, pos |-> 0, mode |-> "ok"],
     [data |-> <<77>>, pos |-> 0, mode |-> "ok"]}

FileNames == <<"a.jpg", "b.jpg", "c.jpg", "d.jpg">>

UploadedFileLists ==
    UNION {{[i \in 1..n |-> [name |-> FileNames[i], buffer |-> bs[i]]] :
                bs \in [1..n -> AppBuffers]} : n \in 0..MaxFiles}

\* The answers the transport gives while the application runs.
AppResponses ==
    {[kind |-> "net", status |-> 0, text |-> <<"Read timed out">>, json |-> NotJson],
     [kind |-> "http", status |-> 500, text |-> BodyPlain, json |-> NotJson],
     [kind |-> "http", status |-> 401, text |-> BodyPlain, json |-> NotJson],
     [kind |-> "http", status |-> 200, text |-> <<"{json}">>,
      json |-> JObj(<< <<"candidates", JList(<<Candidate(<<Part(GirText)>>)>>)>>,
                       <<"usageMetadata", Usage(42)>> >>)],
     [kind |-> "http", status |-> 200, text |-> <<"{json}">>,
      json |-> JObj(<< <<"candidates", JList(<<>>)>> >>)]}

\* The page with the client built and the files uploaded.
AppInit ==
    /\ pc = "ready"
    /\ api_key = "key-env"
    /\ api_url = DefaultApiUrl
    /\ uploaded_files \in UploadedFileLists
    /\ buf = [data |-> <<>>, pos |-> 0, mode |-> "ok"]
    /\ args = NoArgs
    /\ payload = NoPayload
    /\ attempt = 0
    /\ last_exc = NoExc
    /\ last_resp = NoResp
    /\ log = <<>>
    /\ outcome = NoOutcome
    /\ analysis_results = <<>>
    /\ file_index = 0
    /\ app_state = "idle"

\* 'Analyze All Images' is pressed: the results are reset and the loop
\* over the uploaded files begins.
AppPress ==
    /\ app_state \in {"idle", "complete", "crashed"}
    /\ pc = "ready"
    /\ analysis_results' = <<>>
    /\ file_index' = 1
    /\ IF Len(uploaded_files) = 0
       THEN app_state' = "complete" /\ buf' = buf
       ELSE app_state' = "running" /\ buf' = uploaded_files[1].buffer
    /\ UNCHANGED <<pc, api_key, api_url, args, payload, attempt, last_exc,
                   last_resp, log, outcome, uploaded_files>>

\* client.analyze_image_from_buffer on the file the loop stands at.
AppAnalyze ==
    /\ app_state = "running"
    /\ AnalyzeStart(SelectedModel, GetSystemPrompt("breed_recognition"),
                    DefaultMaxAttempts, DefaultInitialBackoff,
                    DefaultBackoffMultiplier)

\* The result is appended and the loop moves to the next file, or ends.
AppCollect ==
    /\ app_state = "running"
    /\ pc = "done"
    /\ analysis_results' = Append(analysis_results, outcome)
    /\ uploaded_files' = [uploaded_files EXCEPT ![file_index].buffer = buf]
    /\ file_index' = file_index + 1
    /\ IF file_index < Len(uploaded_files)
       THEN app_state' = "running" /\ buf' = uploaded_files[file_index + 1].buffer
       ELSE app_state' = "complete" /\ buf' = buf
    /\ pc' = "ready"
    /\ args' = NoArgs
    /\ payload' = NoPayload
    /\ attempt' = 0
    /\ last_exc' = NoExc
    /\ last_resp' = NoResp
    /\ log' = <<>>
    /\ outcome' = NoOutcome
    /\ UNCHANGED <<api_key, api_url>>

\* An exception out of analyze_image_from_buffer is caught nowhere in the
\* loop: it ends the run where it stands.
AppCrash ==
    /\ app_state = "running"
    /\ pc = "raised"
    /\ app_state' = "crashed"
    /\ uploaded_files' = [uploaded_files EXCEPT ![file_index].buffer = buf]
    /\ pc' = "ready"
    /\ args' = NoArgs
    /\ payload' = NoPayload
    /\ attempt' = 0
    /\ last_exc' = NoExc
    /\ last_resp' = NoResp
    /\ log' = <<>>
    /\ outcome' = NoOutcome
    /\ UNCHANGED <<api_key, api_url, buf, analysis_results, file_index>>

AppNext ==
    \/ AppPress
    \/ AppAnalyze
    \/ \E resp \in AppResponses : Attempt(resp)
    \/ Sleep
    \/ AppCollect
    \/ AppCrash

SpecApp == AppInit /\ [][AppNext]_vars

\* ------------------------------------------------------------ properties

LastIsCall == Len(log) > 0 /\ log[Len(log)].ev = "call"

\* The members the documented success body has, read without defaults.
Has(x, k) == x.t = "obj" /\ \E i \in 1..Len(x.v) : x.v[i][1] = k
Mem(x, k) == x.v[CHOOSE i \in 1..Len(x.v) : x.v[i][1] = k][2]
HasFirst(x) == x.t = "list" /\ Len(x.v) > 0

\* candidates[0].content.parts[0].text exists.
WellShaped(j) ==
    /\ Has(j, "candidates") /\ HasFirst(Mem(j, "candidates"))
    /\ Has(Mem(j, "candidates").v[1], "content")
    /\ Has(Mem(Mem(j, "candidates").v[1], "content"), "parts")
    /\ HasFirst(Mem(Mem(Mem(j, "candidates").v[1], "content"), "parts"))
    /\ Has(Mem(Mem(Mem(j, "candidates").v[1], "content"), "parts").v[1], "text")

FirstText(j) ==
    Mem(Mem(Mem(Mem(j, "candidates").v[1], "content"), "parts").v[1], "text")

TokenCount(j) ==
    IF Has(j, "usageMetadata") /\ Has(Mem(j, "usageMetadata"), "totalTokenCount")
    THEN Mem(Mem(j, "usageMetadata"), "totalTokenCount")
    ELSE JNum(0)

\* The call at place i of the log was retried: a sleep follows it, and
\* attempt n+1 follows the sleep.
Retried(i) ==
    IF i = Len(log) THEN pc = "sleeping"
    ELSE /\ log[i + 1].ev = "sleep"
         /\ IF i + 1 = Len(log) THEN pc = "calling"
            ELSE /\ log[i + 2].ev = "call"
                 /\ log[i + 2].attempt = log[i].attempt + 1

\* The call at place i of the log ended analyze with a failure outcome.
StoppedAt(i) ==
    /\ i = Len(log)
    /\ pc = "done"
    /\ ~outcome.success

\* C1: analyze never ends by an exception escaping to the caller, whatever
\* the buffer, the status, the body or the network failure.
C1_NeverRaises == pc # "raised"

\* C2: an attempt answered 400, 401 or 403, with any body, is the last event
\* of the call: analyze stops there with a failure outcome whose error text
\* names the status and contains the body.
C2_ClientErrorStops ==
    \A i \in 1..Len(log) :
        (log[i].ev = "call" /\ log[i].status \in {400, 401, 403}) =>
            /\ StoppedAt(i)
            /\ Contains(outcome.error, DecStr(log[i].status))
            /\ Contains(outcome.error, last_resp.text)

\* C3: when the attempts fail with a retryable failure (5xx, 429 or a
\* network failure) and max_attempts = N >= 1, a finished call has made
\* exactly N transport calls and N-1 sleeps, the k-th sleep lasting
\* initial_backoff * backoff_multiplier^(k-1) and lying between attempt k
\* and attempt k+1, and its outcome is a failure.
C3_RetrySchedule ==
    (/\ pc = "done"
     /\ args.max_attempts >= 1
     /\ Len(log) > 0
     /\ \A i \in 1..Len(log) :
            log[i].ev = "call" =>
                log[i].kind = "net" \/ log[i].status >= 500 \/ log[i].status = 429)
    => /\ Len(log) = 2 * args.max_attempts - 1
       /\ \A k \in 1..args.max_attempts :
            log[2 * k - 1].ev = "call" /\ log[2 * k - 1].attempt = k
       /\ \A k \in 1..(args.max_attempts - 1) :
            /\ log[2 * k].ev = "sleep"
            /\ log[2 * k].secs =
                 args.initial_backoff * Pow(args.backoff_multiplier, k - 1)
       /\ ~outcome.success

\* C4: a 5xx answer or a network failure on attempt n < max_attempts, with
\* any body, is followed by a sleep and attempt n+1.
C4_ServerErrorRetried ==
    \A i \in 1..Len(log) :
        (/\ log[i].ev = "call"
         /\ log[i].kind = "net" \/ log[i].status >= 500
         /\ log[i].attempt < args.max_attempts)
        => Retried(i)

\* C5: a 429 on attempt n < max_attempts is followed by a sleep and attempt
\* n+1; and 429 then 200 with a well-shaped body is two transport calls and
\* a success outcome carrying the extracted text.
C5_RateLimitRetried ==
    /\ \A i \in 1..Len(log) :
        (/\ log[i].ev = "call"
         /\ log[i].status = 429
         /\ log[i].attempt < args.max_attempts)
        => Retried(i)
    /\ (/\ Len(log) = 3
        /\ log[1].status = 429
        /\ log[3].ev = "call" /\ log[3].status = 200
        /\ WellShaped(last_resp.json))
       => /\ pc = "done"
          /\ outcome.success
          /\ outcome.analysis = FirstText(last_resp.json)

C5_Witness ==
    /\ pc = "done"
    /\ Len(log) = 3
    /\ log[1].status = 429
    /\ log[3].status = 200
    /\ outcome.success
    /\ outcome.analysis = JStr(GirText)

\* The error text of a 2xx answer whose body is no JSON matches the
\* client-error pattern of the except clause.
BodyLooksLikeClientError ==
    /\ Contains(last_resp.text, <<"API Error ", "4">>)
    /\ ~Contains(last_resp.text, <<"4", "2", "9">>)

InvalidJsonAnswered ==
    /\ LastIsCall
    /\ last_resp.kind = "http" /\ last_resp.status = 200
    /\ last_resp.json.t = "invalid"

C7_SuccessReturns ==
    (/\ LastIsCall
     /\ last_resp.kind = "http" /\ last_resp.status = 200
     /\ last_resp.json.t # "invalid")
    => /\ pc = "done"
       /\ outcome.success
       /\ WellShaped(last_resp.json) =>
            outcome.analysis = FirstText(last_resp.json)
       /\ outcome.model_used = args.model_name
       /\ outcome.tokens_used = TokenCount(last_resp.json)

\* C8: construction with no non-empty key from the argument or the fallback
\* fails before any transport call, construction with one succeeds with
\* that key, and every client that exists has a non-empty api_key.
C8_KeyRequired ==
    /\ [](pc = "config_error" => log = <<>> /\ last_resp = NoResp)
    /\ [](pc \notin {"new", "config_error"} => Truthy(api_key))
    /\ [][\A k \in KeyArgs, e \in EnvKeys, u \in UrlArgs :
            Construct(k, e, u) =>
                IF Truthy(k) THEN pc' = "ready" /\ api_key' = k
                ELSE IF Truthy(e) THEN pc' = "ready" /\ api_key' = e
                ELSE pc' = "config_error"]_vars

C8_Witness == pc = "config_error" /\ api_key = ""

\* C9: with a buffer whose seek or read raises, analyze makes no transport
\* call and no sleep, whatever max_attempts is, and returns a failure
\* outcome whose error begins 'Image encoding failed'.
C9_EncodeFailureReturns ==
    buf.mode # "ok" =>
        /\ pc \in {"new", "config_error", "ready", "done"}
        /\ log = <<>>
        /\ pc = "done" =>
            /\ ~outcome.success
            /\ SubSeq(outcome.error, 1, 1) = <<"Image encoding failed: ">>
            /\ "model_used" \notin DOMAIN outcome

C9_Witness ==
    /\ pc = "done"
    /\ buf.mode = "read_raises"
    /\ args.max_attempts = MaxAttempts
    /\ outcome = EncodeFailure(<<"read error">>)

\* C10: with an empty readable buffer, analyze makes no transport call and
\* (stated here for max_attempts >= 1) returns a failure outcome with an
\* encoding-related message.
C10_EmptyBufferRejected ==
    (buf.mode = "ok" /\ buf.data = <<>>) =>
        /\ pc \in {"new", "config_error", "ready", "done"}
        /\ log = <<>>
        /\ (pc = "done" /\ args.max_attempts >= 1) =>
            /\ ~outcome.success
            /\ Contains(outcome.error, <<"Image encoding failed: ">>)

NumCalls == Len(SelectSeq(log, LAMBDA e : e.ev = "call"))
NumSleeps == Len(SelectSeq(log, LAMBDA e : e.ev = "sleep"))
InCall == pc \in {"calling", "sleeping"}

\* C11: a returned outcome has one of two shapes: success with analysis and
\* tokens_used and no error, or failure with a non-empty error and neither
\* analysis nor tokens_used.
C11_OutcomeShape ==
    pc = "done" =>
        /\ "success" \in DOMAIN outcome
        /\ IF outcome.success
           THEN /\ {"analysis", "tokens_used"} \subseteq DOMAIN outcome
                /\ "error" \notin DOMAIN outcome
           ELSE /\ "error" \in DOMAIN outcome
                /\ Len(outcome.error) > 0
                /\ "analysis" \notin DOMAIN outcome
                /\ "tokens_used" \notin DOMAIN outcome

C11_Witness ==
    /\ pc = "done"
    /\ ~outcome.success
    /\ NumCalls = 2
    /\ DOMAIN outcome = {"success", "error", "model_used"}

\* What is left of a call: it decreases with every step of the call.
Measure ==
    IF pc = "calling" THEN 2 * (args.max_attempts - attempt) + 2
    ELSE IF pc = "sleeping" THEN 2 * (args.max_attempts - attempt) + 1
    ELSE 0

\* The ways a call ends with an outcome.
EndedByEncodeFailure == log = <<>> /\ buf.mode # "ok" /\ ~outcome.success
EndedBySuccess == LastIsCall /\ outcome.success
EndedByNoRetry == LastIsCall /\ ~outcome.success /\ NoRetry(last_exc)
EndedByExhaustion ==
    /\ ~outcome.success
    /\ NumCalls = (IF args.max_attempts < 1 THEN 0 ELSE args.max_attempts)
    /\ buf.mode = "ok"

C13_SameRequest ==
    /\ [](\A i \in 1..Len(log) :
            log[i].ev = "call" =>
                /\ log[i].json = payload
                /\ log[i].json = MakeGeminiPayload(B64Encode(buf.data),
                        args.system_prompt, args.user_query, args.model_name)
                /\ log[i].url = api_url
                /\ log[i].key_header = api_key
                /\ log[i].url # api_key)
    /\ [][InCall => payload' = payload]_vars

C13_Witness ==
    /\ NumCalls = 3
    /\ log[1].status = 500
    /\ log[5].json = log[1].json
    /\ buf.data = <<77, 97, 110>>

\* C16: once the client is built, no step changes api_key or api_url, and
\* every transport call uses them.
C16_CredentialsReadOnly ==
    /\ [][pc # "new" => api_key' = api_key /\ api_url' = api_url]_vars
    /\ [](\A i \in 1..Len(log) :
            log[i].ev = "call" =>
                log[i].key_header = api_key /\ log[i].url = api_url)

C16_Witness ==
    /\ pc = "done"
    /\ NumCalls = 2
    /\ api_key = "key-arg"
    /\ api_url = "https://proxy.example/v1:generateContent"
    /\ log[3].key_header = "key-arg"

\* C17: a sleep lies between two transport calls of the call; a finished
\* call that made an attempt ends on a transport call, with one sleep fewer
\* than transport calls.
C17_SleepOnlyBetweenCalls ==
    /\ \A i \in 1..Len(log) :
          log[i].ev = "sleep" =>
              /\ i > 1 /\ log[i - 1].ev = "call"
              /\ IF i = Len(log) THEN pc = "calling" ELSE log[i + 1].ev = "call"
    /\ (pc \in {"done", "raised"} /\ Len(log) > 0) =>
          /\ log[Len(log)].ev = "call"
          /\ NumSleeps = NumCalls - 1

C17_Witness ==
    /\ pc = "done"
    /\ outcome.success
    /\ NumSleeps = 2
    /\ NumCalls = 3

\* C19: an attempt answered by a 4xx other than 429 and outside 400-403 is
\* the last event of the call, which ends with a failure outcome.
C19_Other4xxStops ==
    \A i \in 1..Len(log) :
        (/\ log[i].ev = "call"
         /\ log[i].status >= 404 /\ log[i].status < 500
         /\ log[i].status # 429)
        => StoppedAt(i)

\* C20: a call that fails after at least one attempt reports the error of
\* the last attempt made, and its outcome carries the model_name argument.
C20_LastErrorReported ==
    (pc = "done" /\ Len(log) > 0 /\ ~outcome.success) =>
        /\ outcome.error = <<"All attempts failed. Last error: ">>
                           \o CallGemini(last_resp).exc.msg
        /\ outcome.model_used = args.model_name

C20_Witness ==
    /\ pc = "done"
    /\ NumCalls = 2
    /\ log[1].status = 500
    /\ log[3].status = 401
    /\ Contains(outcome.error, <<"API Error ", "4", "0", "1">>)
    /\ ~Contains(outcome.error, <<"API Error ", "5", "0", "0">>)

\* Decoding of base64 text (characters as alphabet indices, 64 the padding).
RECURSIVE B64Decode(_)
B64Decode(cs) ==
    IF Len(cs) < 4 THEN <<>>
    ELSE (IF cs[3] = 64
          THEN <<cs[1] * 4 + cs[2] \div 16>>
          ELSE IF cs[4] = 64
          THEN <<cs[1] * 4 + cs[2] \div 16, (cs[2] % 16) * 16 + cs[3] \div 4>>
          ELSE <<cs[1] * 4 + cs[2] \div 16, (cs[2] % 16) * 16 + cs[3] \div 4,
                 (cs[3] % 4) * 64 + cs[4]>>)
         \o B64Decode(SubSeq(cs, 5, Len(cs)))

ImageData == payload.contents[1].parts[1].inlineData.data

\* C14: the data field of a built payload decodes to exactly the image
\* bytes, and no other byte string encodes to the same data field.
C14_Base64RoundTrip ==
    pc = "built" =>
        /\ B64Decode(ImageData) = buf.data
        /\ \A bs \in AllByteStrings :
              bs # buf.data => B64Encode(bs) # ImageData

C14_Witness ==
    /\ pc = "built"
    /\ buf.data = <<77, 97>>
    /\ ImageData = <<19, 22, 4, 64>>

\* C15: the built payload is the same whatever model_name is passed, has
\* 'contents' as its only top-level key, and holds one user-role message
\* with an inline-image part followed by a text part that contains the
\* system prompt and the user query.
C15_PayloadShape ==
    pc = "built" =>
        /\ \A m \in ModelNames :
              MakeGeminiPayload(ImageData, args.system_prompt,
                                args.user_query, m) = payload
        /\ DOMAIN payload = {"contents"}
        /\ Len(payload.contents) = 1
        /\ payload.contents[1].role = "user"
        /\ Len(payload.contents[1].parts) = 2
        /\ DOMAIN payload.contents[1].parts[1] = {"inlineData"}
        /\ payload.contents[1].parts[1].inlineData.mimeType = "image/jpeg"
        /\ DOMAIN payload.contents[1].parts[2] = {"text"}
        /\ Contains(payload.contents[1].parts[2].text, args.system_prompt)
        /\ Contains(payload.contents[1].parts[2].text, args.user_query)

C15_Witness ==
    /\ pc = "built"
    /\ args.model_name = "gemini-2.5-pro"
    /\ args.user_query = <<"Which breed is this?">>
    /\ payload.contents[1].parts[2].text =
         <<"SYSTEM INSTRUCTION: ", "BREED_RECOGNITION_PROMPT",
           "\n\nUSER QUERY: ", "Which breed is this?">>

SuccessfulAnalyses ==
    Len(SelectSeq(analysis_results, LAMBDA r : r.success))
FailedAnalyses ==
    Len(SelectSeq(analysis_results,
                  LAMBDA r : "error" \in DOMAIN r /\ Len(r.error) > 0))

\* C18: a run of 'Analyze All' analyzes the uploaded files one after the
\* other in upload order (the call in progress is for the file after those
\* whose outcome is already held), and a run that has ended leaves
\* analysis_results with one outcome per uploaded file, successes and
\* failures adding up to the number of results.
C18_OneOutcomePerFile ==
    /\ app_state = "running" =>
          /\ file_index \in 1..Len(uploaded_files)
          /\ Len(analysis_results) = file_index - 1
          /\ buf.data = uploaded_files[file_index].buffer.data
    /\ app_state \in {"complete", "crashed"} =>
          Len(analysis_results) = Len(uploaded_files)
    /\ SuccessfulAnalyses + FailedAnalyses = Len(analysis_results)

\* C21: with max_attempts <= 0 and a buffer that can be read, analyze makes
\* no transport call and no sleep and returns a failure outcome whose error
\* is 'All attempts failed. Last error: None'.
C21_NoAttemptsFailure ==
    (pc \in {"calling", "sleeping", "done", "raised"}
     /\ args.max_attempts <= 0 /\ buf.mode = "ok") =>
        /\ pc = "done"
        /\ NumCalls = 0
        /\ NumSleeps = 0
        /\ outcome.success = FALSE
        /\ outcome.error = <<"All attempts failed. Last error: ", None>>

C21_Witness ==
    /\ pc = "done"
    /\ args.max_attempts < 0
    /\ buf = [data |-> <<77, 97, 110>>, pos |-> 3, mode |-> "ok"]
    /\ log = <<>>
    /\ outcome.error = <<"All attempts failed. Last error: ", None>>


\* C22: analyze rewinds the buffer before reading it: every call of an
\* 'Analyze All' run, the first on a file as well as one made when the
\* button is pressed again and the buffer stands at its end, sends the
\* base64 encoding of the file's whole image data, and the data of an
\* uploaded file never changes, so both calls send the same data.
C22_RewindBeforeRead ==
    /\ [](pc \in {"calling", "sleeping", "done", "raised"} =>
            /\ payload # NoPayload
            /\ ImageData = B64Encode(uploaded_files[file_index].buffer.data)
            /\ Len(ImageData) > 0
            /\ buf.data = uploaded_files[file_index].buffer.data)
    /\ [][/\ Len(uploaded_files') = Len(uploaded_files)
          /\ \A i \in 1..Len(uploaded_files) :
                uploaded_files'[i].buffer.data = uploaded_files[i].buffer.data]_vars

\* A call of a second run: the file's buffer was left at its end by the
\* run before, and the whole image is sent again.
C22_Witness ==
    /\ app_state = "running"
    /\ pc = "calling"
    /\ file_index = 1
    /\ uploaded_files[1].buffer = [data |-> <<77, 97, 110>>, pos |-> 3, mode |-> "ok"]
    /\ ImageData = <<19, 22, 5, 46>>

====
